---------------------------- MODULE Spec2Model ----------------------------
(***************************************************************************)
(* Model of the quiz scoring and roadmap pipeline of the e_learn backend:  *)
(* backend/model_utils.py (question bank, model loader, feature encoder,   *)
(* fallback scorer, roadmap generator) and the /api/submit handler of      *)
(* backend/main.py.                                                        *)
(*                                                                         *)
(* Representation of Python values:                                        *)
(*   - a list is a sequence; Python index i is TLA+ index i + 1;           *)
(*   - a str that is tested for truthiness or built by an f-string is the  *)
(*     sequence of its pieces, so "" is << >>;                             *)
(*   - an Optional value is << >> (None) or << v >>;                       *)
(*   - a dict is a record / a function over its keys;                      *)
(*   - a call that may raise returns [raised |-> TRUE, exc |-> ...] or     *)
(*     [raised |-> FALSE, ...].                                            *)
(***************************************************************************)
EXTENDS Integers, Sequences, FiniteSets, TLC

(***************************************************************************)
(* model_utils.py: QUESTIONS                                               *)
(***************************************************************************)
QUESTIONS ==
  << [question |-> "Which of the following best describes a 'for' loop?",
      options  |-> <<"A conditional statement", "A way to store multiple values",
                     "A control flow statement for iterating", "A function that calls itself">>,
      scores   |-> <<2, 3, 10, 1>>],
     [question |-> "How would you efficiently create a new list of only even numbers from an existing list?",
      options  |-> <<"Series of 'if-else' statements", "A loop that checks each number",
                     "A function for every possible number", "Store numbers in separate variables">>,
      scores   |-> <<3, 10, 1, 2>>],
     [question |-> "What is the primary purpose of a function in programming?",
      options  |-> <<"To stop the program", "To store data", "To group reusable code", "To create comments">>,
      scores   |-> <<1, 3, 10, 2>>],
     [question |-> "If a coin is flipped twice, what is the probability of getting two heads?",
      options  |-> <<"1/2", "1/3", "1/4", "1">>,
      scores   |-> <<3, 2, 10, 1>>],
     [question |-> "What does the 'mean' of a dataset represent?",
      options  |-> <<"The middle value", "The most frequent value", "The average of all values",
                     "The range of values">>,
      scores   |-> <<4, 3, 10, 2>>],
     [question |-> "An upward trend in a graph where both variables increase together is called:",
      options  |-> <<"Negative correlation", "Positive correlation", "No correlation", "A statistical error">>,
      scores   |-> <<1, 10, 2, 1>>],
     [question |-> "What is the role of a server in a client-server relationship?",
      options  |-> <<"To request information", "To provide resources or services",
                     "The user's main computer", "To protect from viruses">>,
      scores   |-> <<3, 10, 2, 4>>],
     [question |-> "Which of the following best describes 'the cloud'?",
      options  |-> <<"A single, massive computer", "A network of servers accessed via internet",
                     "A personal storage device", "Software for documents">>,
      scores   |-> <<2, 10, 1, 1>>],
     [question |-> "What is an API (Application Programming Interface)?",
      options  |-> <<"A visual user interface", "A set of rules for app communication",
                     "A database for storage", "A security protocol">>,
      scores   |-> <<3, 10, 2, 4>>],
     [question |-> "When designing a website, what is the most important consideration?",
      options  |-> <<"Using many colors", "Intuitive user navigation", "Complex animations",
                     "Smallest font size">>,
      scores   |-> <<2, 10, 1, 1>>],
     [question |-> "What's the best way to create visual hierarchy on a poster?",
      options  |-> <<"Make all text the same", "Make important info larger/bolder",
                     "Put least important info at top", "Fill every empty space">>,
      scores   |-> <<1, 10, 1, 2>>],
     [question |-> "What is the primary goal of UX (User Experience) design?",
      options  |-> <<"Making a product look appealing", "Focusing on branding/logo",
                     "Enhancing usability and accessibility", "Writing the application code">>,
      scores   |-> <<4, 2, 10, 1>>],
     [question |-> "What's a constructive way to handle disagreement with a teammate?",
      options  |-> <<"Ignore their idea", "Publicly criticize them", "Discuss pros and cons together",
                     "Complain to someone else">>,
      scores   |-> <<1, 1, 10, 1>>],
     [question |-> "What is the main purpose of version control software like Git?",
      options  |-> <<"To write code automatically", "To track changes and manage collaboration",
                     "To design the UI", "To store only the final version">>,
      scores   |-> <<1, 10, 1, 2>>],
     [question |-> "When presenting to stakeholders, it's most important to:",
      options  |-> <<"Use highly technical jargon", "Focus only on what went wrong",
                     "Clearly communicate progress and challenges",
                     "Make the presentation as long as possible">>,
      scores   |-> <<1, 1, 10, 1>>] >>

(***************************************************************************)
(* Python built-ins the code relies on                                     *)
(***************************************************************************)
None == << >>

Some(v) == << v >>

\* bool(x) of an Optional[str]: None and "" are falsy
Truthy(o) == o # None /\ o[1] # << >>

\* a or b
PyOr(a, b) == IF Truthy(a) THEN a ELSE b

\* seq[i] never raises iff -len(seq) <= i < len(seq)
PyIndexOk(seq, i) == -Len(seq) <= i /\ i < Len(seq)

\* seq[i]: a negative i counts from the end of the list
PyIndex(seq, i) == IF i >= 0 THEN seq[i + 1] ELSE seq[Len(seq) + i + 1]

Min(a, b) == IF a <= b THEN a ELSE b

\* max(seq) of a non-empty list of ints
PyMax(seq) == CHOOSE m \in {seq[k] : k \in 1..Len(seq)} :
                \A k \in 1..Len(seq) : seq[k] <= m

\* seq.index(v): the first position holding v (v is in seq)
PyListIndex(seq, v) == (CHOOSE k \in 1..Len(seq) :
                          seq[k] = v /\ \A j \in 1..(k - 1) : seq[j] # v) - 1

(***************************************************************************)
(* model_utils.py: load_xgb_model.  files maps a path to what is stored    *)
(* there: "absent", "corrupt" (no loader reads it), "pickle" (joblib.load  *)
(* reads it) or "booster" (only xgboost's native loader reads it).         *)
(* environ holds the process environment, xgbmod whether xgboost imported. *)
(***************************************************************************)
DEFAULT_MODEL_PATH == "./models/xgb_model.joblib"

Exists(files, path) == path \in DOMAIN files /\ files[path] # "absent"

\* os.getenv(name, default)
Getenv(environ, name, default) ==
  IF environ[name] # None THEN environ[name][1] ELSE default

load_xgb_model(path, files, environ, xgbmod) ==
  LET alt == Getenv(environ, "XGB_MODEL_PATH", path)
      p   == IF Exists(files, path) THEN path ELSE alt
  IN  IF ~Exists(files, path) /\ ~Exists(files, alt)
        THEN [model |-> None, type |-> None]
      ELSE IF files[p] = "pickle"
        THEN [model |-> Some(p), type |-> Some("sklearn")]
      ELSE IF xgbmod /\ files[p] = "booster"
        THEN [model |-> Some(p), type |-> Some("booster")]
      ELSE [model |-> None, type |-> None]

(***************************************************************************)
(* model_utils.py: features_from_answers.  The row holds the answers cast  *)
(* to float32, which is exact for the magnitudes a quiz index takes.       *)
(***************************************************************************)
features_from_answers(answers) ==
  LET n == Len(QUESTIONS)
  IN  IF Len(answers) # n
        THEN [raised |-> TRUE, exc |-> "ValueError"]
        ELSE [raised |-> FALSE, X |-> << answers >>]

(***************************************************************************)
(* model_utils.py: fallback_score_from_answers.  zip stops at the shorter  *)
(* of QUESTIONS and answers; q["scores"][sel] is Python list indexing.     *)
(***************************************************************************)
RECURSIVE ScoreLoop(_, _, _, _)
ScoreLoop(k, answers, total, per_q) ==
  IF k > Min(Len(QUESTIONS), Len(answers))
    THEN [raised |-> FALSE, total |-> total, per_q |-> per_q]
  ELSE LET q   == QUESTIONS[k]
           sel == answers[k]
       IN  IF ~PyIndexOk(q.scores, sel) \/ ~PyIndexOk(q.options, sel)
             THEN [raised |-> TRUE, exc |-> "IndexError"]
             ELSE LET sc == PyIndex(q.scores, sel)
                  IN  ScoreLoop(k + 1, answers, total + sc,
                                Append(per_q, [question |-> q.question,
                                               selected |-> PyIndex(q.options, sel),
                                               score    |-> sc]))

\* mutant: the loop starts at the second question
fallback_score_skipping_first(answers) == ScoreLoop(2, answers, 0, << >>)

fallback_score_from_answers(answers) == ScoreLoop(1, answers, 0, << >>)

(***************************************************************************)
(* The generation service as requests.post sees it.  A reply is a          *)
(* connection error, a timeout, or a response with a status code and a     *)
(* body; a body is not JSON ("text"), a JSON array ("list") or a JSON      *)
(* object ("dict") with its fields.                                        *)
(***************************************************************************)
RAW_TEXT == << "Week 1: revise loops. Week 2: practise statistics." >>

JSON_ROADMAP_TEXT ==
  << "{\"summary\": \"Focus on statistics\", \"weeks\": [{\"week\": 1, \"goal\": \"Mean and probability\", \"activities\": [\"Solve ten exercises\"]}], \"resources\": [{\"title\": \"Khan Academy\", \"url\": \"https://khanacademy.org\", \"why\": \"Statistics basics\"}]}" >>

JSON_SUMMARY_TEXT == << "{\"summary\": \"Keep practising\"}" >>

BODY_EMPTY_OUTPUT == [output_text |-> << >>]

BODY_NO_OUTPUT == [message |-> << "no output" >>]

ServiceDicts ==
  { [output_text |-> JSON_ROADMAP_TEXT],
    [output_text |-> RAW_TEXT],
    [result |-> JSON_SUMMARY_TEXT],
    [output_text |-> << >>, result |-> RAW_TEXT],
    BODY_EMPTY_OUTPUT,
    BODY_NO_OUTPUT }

ServiceBodies ==
  { [form |-> "text"], [form |-> "list"] }
    \cup { [form |-> "dict", fields |-> d] : d \in ServiceDicts }

ServiceReplies ==
  { [kind |-> "ConnectionError"], [kind |-> "Timeout"] }
    \cup { [kind |-> "response", status_code |-> 200, body |-> b] : b \in ServiceBodies }
    \cup { [kind |-> "response", status_code |-> c, body |-> [form |-> "text"]] :
             c \in { 300, 404, 503 } }
    \cup { [kind |-> "response", status_code |-> 300,
            body |-> [form |-> "dict", fields |-> [output_text |-> JSON_ROADMAP_TEXT]]] }

\* requests.Response.raise_for_status: HTTPError for a 4xx or 5xx status
RaisesForStatus(status_code) == 400 <= status_code /\ status_code < 600

\* json.loads on the texts the service sends or json.dumps writes
json_loads(text) ==
  CASE text = JSON_ROADMAP_TEXT ->
         [raised |-> FALSE,
          value  |-> [summary   |-> << "Focus on statistics" >>,
                      weeks     |-> << [week |-> 1, goal |-> "Mean and probability",
                                        activities |-> << "Solve ten exercises" >>] >>,
                      resources |-> << [title |-> "Khan Academy",
                                        url   |-> "https://khanacademy.org",
                                        why   |-> "Statistics basics"] >>]]
    [] text = JSON_SUMMARY_TEXT ->
         [raised |-> FALSE, value |-> [summary |-> << "Keep practising" >>]]
    [] text = << "{\"output_text\": \"\"}" >> ->
         [raised |-> FALSE, value |-> BODY_EMPTY_OUTPUT]
    [] text = << "{\"message\": \"no output\"}" >> ->
         [raised |-> FALSE, value |-> BODY_NO_OUTPUT]
    [] OTHER -> [raised |-> TRUE, exc |-> "JSONDecodeError"]

\* json.dumps of a response body
json_dumps(d) ==
  CASE d = BODY_EMPTY_OUTPUT -> << "{\"output_text\": \"\"}" >>
    [] d = BODY_NO_OUTPUT    -> << "{\"message\": \"no output\"}" >>

\* dict.get(key): None when the key is missing
DictGet(d, key) == IF key \in DOMAIN d THEN Some(d[key]) ELSE None

\* str(e) of the exception the call raised
ExcMessage(reply) ==
  CASE reply.kind = "ConnectionError" -> << "Connection refused" >>
    [] reply.kind = "Timeout"         -> << "Read timed out. (read timeout=20)" >>
    [] reply.kind = "response" /\ RaisesForStatus(reply.status_code) ->
         << ToString(reply.status_code),
            IF reply.status_code < 500 THEN " Client Error" ELSE " Server Error" >>
    [] reply.kind = "response" /\ reply.body.form = "text" ->
         << "Expecting value: line 1 column 1 (char 0)" >>
    [] OTHER -> << "'list' object has no attribute 'get'" >>

(***************************************************************************)
(* model_utils.py: generate_roadmap_with_gemini.  reply is what the        *)
(* service answers if it is called.  The result holds the roadmap and the  *)
(* requests that were posted.                                              *)
(***************************************************************************)
\* "--" in the summary stands for the em dash (U+2014) of the source string,
\* which a TLA+ string cannot hold
HEURISTIC_PLAN ==
  [summary   |-> << "No Gemini key -- heuristic plan provided." >>,
   weeks     |-> << [week |-> 1, goal |-> "Basics refresh",
                     activities |-> << "Revise loops & functions", "Small coding tasks" >>],
                    [week |-> 2, goal |-> "Data structures",
                     activities |-> << "Practice lists, dicts, comprehensions" >>],
                    [week |-> 3, goal |-> "Probability & statistics basics",
                     activities |-> << "Mean, probability tasks" >>],
                    [week |-> 4, goal |-> "APIs & Systems",
                     activities |-> << "Build a small API endpoint" >>],
                    [week |-> 5, goal |-> "Design & UX",
                     activities |-> << "Design a poster, apply visual hierarchy" >>],
                    [week |-> 6, goal |-> "Collaboration & presentation",
                     activities |-> << "Use Git, prepare a presentation" >>] >>,
   resources |-> << [title |-> "LeetCode", url |-> "https://leetcode.com",
                     why |-> "Short focused problems"],
                    [title |-> "MDN Web Docs", url |-> "https://developer.mozilla.org",
                     why |-> "Web fundamentals"] >>]

ENDPOINT == "https://api.generativeai.example/v1/generate"

RECURSIVE Questions(_, _, _)
\* [item["question"] for item in per_question if keep(item["score"])], in order
Questions(per_question, k, atLeast) ==
  IF k > Len(per_question) THEN << >>
  ELSE LET item == per_question[k]
           keep == IF atLeast THEN item.score >= 8 ELSE item.score <= 3
       IN  (IF keep THEN << item.question >> ELSE << >>)
             \o Questions(per_question, k + 1, atLeast)

BuildPrompt(user_name, total_score, per_question) ==
  [user_name   |-> user_name,
   total_score |-> total_score,
   strengths   |-> Questions(per_question, 1, TRUE),
   weaknesses  |-> Questions(per_question, 1, FALSE)]

\* mutant: text that does not parse is reported as a failed call
HandleReplyUnparsedFails(reply) ==
  LET failed == [summary |-> << "Gemini call failed: " >> \o ExcMessage(reply)
                               \o << ". Returning heuristic roadmap." >>]
  IN  IF reply.kind # "response" THEN failed
      ELSE IF RaisesForStatus(reply.status_code) THEN failed
      ELSE IF reply.body.form # "dict" THEN failed
      ELSE LET resp   == reply.body.fields
               text   == PyOr(PyOr(DictGet(resp, "output_text"), DictGet(resp, "result")),
                              Some(json_dumps(resp)))[1]
               parsed == json_loads(text)
           IN  IF parsed.raised THEN failed ELSE parsed.value

\* lines 139-150: the try block around the one requests.post
HandleReply(reply) ==
  LET failed == [summary |-> << "Gemini call failed: " >> \o ExcMessage(reply)
                               \o << ". Returning heuristic roadmap." >>]
  IN  IF reply.kind # "response" THEN failed
      ELSE IF RaisesForStatus(reply.status_code) THEN failed
      ELSE IF reply.body.form # "dict" THEN failed
      ELSE LET resp   == reply.body.fields
               text   == PyOr(PyOr(DictGet(resp, "output_text"), DictGet(resp, "result")),
                              Some(json_dumps(resp)))[1]
               parsed == json_loads(text)
           IN  IF parsed.raised THEN [summary |-> text] ELSE parsed.value

\* the request the one requests.post sends
Request(gemini_api_key, prompt) ==
  [endpoint      |-> ENDPOINT,
   authorization |-> gemini_api_key[1],
   prompt        |-> prompt,
   timeout       |-> 20]

\* mutant: only a missing key (None) counts as no credential
generate_roadmap_key_is_none(api_key, user_name, total_score, per_question, prediction, environ, reply) ==
  LET prompt         == BuildPrompt(user_name, total_score, per_question)
      gemini_api_key == IF api_key # None THEN api_key ELSE environ["GEMINI_API_KEY"]
  IN  IF gemini_api_key = None
        THEN [roadmap |-> HEURISTIC_PLAN, posted |-> << >>]
        ELSE [roadmap |-> HandleReply(reply),
              posted  |-> << Request(gemini_api_key, prompt) >>]

\* mutant: a failed call is posted a second time
generate_roadmap_retrying(api_key, user_name, total_score, per_question, prediction, environ, reply) ==
  LET prompt         == BuildPrompt(user_name, total_score, per_question)
      gemini_api_key == PyOr(api_key, environ["GEMINI_API_KEY"])
      req            == Request(gemini_api_key, prompt)
  IN  IF ~Truthy(gemini_api_key)
        THEN [roadmap |-> HEURISTIC_PLAN, posted |-> << >>]
        ELSE [roadmap |-> HandleReply(reply),
              posted  |-> IF reply.kind # "response" THEN << req, req >> ELSE << req >>]

generate_roadmap_with_gemini(api_key, user_name, total_score, per_question, prediction, environ, reply) ==
  LET prompt         == BuildPrompt(user_name, total_score, per_question)
      gemini_api_key == PyOr(api_key, environ["GEMINI_API_KEY"])
  IN  IF ~Truthy(gemini_api_key)
        THEN [roadmap |-> HEURISTIC_PLAN, posted |-> << >>]
        ELSE [roadmap |-> HandleReply(reply),
              posted  |-> << Request(gemini_api_key, prompt) >>]

(***************************************************************************)
(* The inputs of the model                                                 *)
(***************************************************************************)
\* answer values reach from -(MaxIndex + 1) to MaxIndex
MaxIndex == 4

\* answer vectors are up to MaxLenDelta shorter or longer than QUESTIONS
MaxLenDelta == 1

ZEROS == [i \in 1..Len(QUESTIONS) |-> 0]

BEST == << 2, 1, 2, 2, 2, 1, 1, 1, 1, 1, 1, 2, 2, 1, 2 >>

\* below every list, the lowest and the highest negative index of a list of
\* four options, and 0 .. MaxIndex
AnswerValues ==
  { -(MaxIndex + 1), -Len(QUESTIONS[1].options), -1 } \cup 0..MaxIndex

\* the all-zero and the all-best vector, the all-zero vector with one
\* position replaced by any value, and both cut or extended by up to
\* MaxLenDelta answers
AnswerVectors ==
  LET bases   == { ZEROS, BEST }
      patched == { [ZEROS EXCEPT ![p] = v] : p \in 1..Len(QUESTIONS), v \in AnswerValues }
      cut     == { SubSeq(b, 1, Len(b) - d) : b \in bases, d \in 1..MaxLenDelta }
      longer  == { b \o [i \in 1..d |-> 0] : b \in bases, d \in 1..MaxLenDelta }
  IN  bases \cup patched \cup cut \cup longer \cup { << >> }

\* SubmitPayload.gemini_key: absent, empty or a key
GeminiKeys == { None, Some(<< >>), Some(<< "user-key" >>) }

\* what is stored at the model path, and the process environment
FileKinds == { "absent", "corrupt", "pickle", "booster" }

Deployments ==
  { [files   |-> [p \in { DEFAULT_MODEL_PATH } |-> k],
     environ |-> [XGB_MODEL_PATH |-> None, GEMINI_API_KEY |-> g]] :
      k \in FileKinds, g \in { None, Some(<< "env-key" >>) } }

\* how the loaded model answers one call: predict and predict_proba each
\* return (Some) or raise (None); probabilities are in percent
ModelRuns(model, type) ==
  IF model = None THEN { [predict |-> None, proba |-> None] }
  ELSE IF type = Some("sklearn")
    THEN { [predict |-> None, proba |-> None],
           [predict |-> Some(<< 1 >>), proba |-> None],
           [predict |-> Some(<< 1 >>), proba |-> Some(<< << 10, 90 >> >>)] }
    ELSE { [predict |-> None, proba |-> None],
           [predict |-> Some(<< 73 >>), proba |-> None] }

\* main.py imports xgboost unconditionally: the server runs only with it
XGBOOST_IMPORTED == TRUE

\* the authenticated user get_current_user supplies
CURRENT_USER == [id |-> 1, name |-> "Ada", email |-> "ada@example.org"]

\* str(x)
PyStr(x) == << ToString(x) >>

(***************************************************************************)
(* State                                                                   *)
(***************************************************************************)
VARIABLES
  files,            \* the file system at the model path
  environ,          \* the process environment
  MODEL,            \* main.py: MODEL, loaded once at startup
  MODEL_TYPE,       \* main.py: MODEL_TYPE
  results,          \* the rows of the results table
  pc,               \* position of the submit handler
  payload,          \* SubmitPayload of the request being handled
  run,              \* how the model answered this request's call
  prediction_label, \* submit: prediction_label
  model_score,      \* submit: model_score
  total_score,      \* submit: total_score
  per_q,            \* submit: per_q
  reply,            \* what the generation service answered, if called
  roadmap,          \* submit: roadmap
  posted,           \* the requests posted to the generation service
  response          \* the HTTP response of the request

vars == << files, environ, MODEL, MODEL_TYPE, results, pc, payload, run,
           prediction_label, model_score, total_score, per_q, reply, roadmap,
           posted, response >>

NO_PAYLOAD == [answers |-> << >>, gemini_key |-> None]

NO_RUN == [predict |-> None, proba |-> None]

NO_REPLY == [kind |-> "not called"]

NO_ROADMAP == [summary |-> << >>]

NO_RESPONSE == [status_code |-> 0]

\* a row stored by an earlier submission of the all-zero answers
PRIOR_RESULTS ==
  << [id |-> 1, user_id |-> CURRENT_USER.id, features |-> ZEROS, score |-> 32,
      prediction |-> None, roadmap |-> HEURISTIC_PLAN] >>

\* main.py 13-22: init_db(), MODEL_PATH and load_xgb_model at import
Init ==
  \E d \in Deployments :
    LET MODEL_PATH == Getenv(d.environ, "XGB_MODEL_PATH", DEFAULT_MODEL_PATH)
        loaded     == load_xgb_model(MODEL_PATH, d.files, d.environ, XGBOOST_IMPORTED)
    IN  /\ files = d.files
        /\ environ = d.environ
        /\ MODEL = loaded.model
        /\ MODEL_TYPE = loaded.type
        /\ results = PRIOR_RESULTS
        /\ pc = "idle"
        /\ payload = NO_PAYLOAD
        /\ run = NO_RUN
        /\ prediction_label = None
        /\ model_score = None
        /\ total_score = 0
        /\ per_q = << >>
        /\ reply = NO_REPLY
        /\ roadmap = NO_ROADMAP
        /\ posted = << >>
        /\ response = NO_RESPONSE

(***************************************************************************)
(* main.py: submit, step by step                                           *)
(***************************************************************************)
\* a request arrives with its validated SubmitPayload
Receive ==
  /\ pc = "idle"
  /\ \E answers \in AnswerVectors, key \in GeminiKeys :
       payload' = [answers |-> answers, gemini_key |-> key]
  /\ pc' = "validate"
  /\ UNCHANGED << files, environ, MODEL, MODEL_TYPE, results, run, prediction_label,
                  model_score, total_score, per_q, reply, roadmap, posted, response >>

\* mutant: no length check
ValidateNoCheck ==
  /\ pc = "validate"
  /\ pc' = "classify"
  /\ UNCHANGED << files, environ, MODEL, MODEL_TYPE, results, payload, run,
                  prediction_label, model_score, total_score, per_q, reply, roadmap,
                  posted, response >>

\* lines 94-95: the length check
Validate ==
  /\ pc = "validate"
  /\ IF Len(payload.answers) # Len(QUESTIONS)
       THEN /\ response' = [status_code |-> 400, detail |-> "Expected 15 answers"]
            /\ pc' = "failed"
       ELSE /\ response' = response
            /\ pc' = "classify"
  /\ UNCHANGED << files, environ, MODEL, MODEL_TYPE, results, payload, run,
                  prediction_label, model_score, total_score, per_q, reply, roadmap,
                  posted >>

\* lines 100-116: the body of the try block, with the model answering as r
Predict(answers, model, type, r) ==
  IF model = None
    THEN [raised |-> FALSE, prediction_label |-> None, model_score |-> None]
  ELSE LET X == features_from_answers(answers)
       IN  IF X.raised THEN [raised |-> TRUE, exc |-> X.exc]
           ELSE IF type = Some("sklearn")
             THEN IF r.predict = None THEN [raised |-> TRUE, exc |-> "predict"]
                  ELSE LET pred  == r.predict[1]
                           proba == r.proba
                       IN  [raised           |-> FALSE,
                            prediction_label |-> Some(PyStr(pred[1])),
                            model_score      |-> IF proba # None /\ proba[1] # << >>
                                                   THEN Some(proba[1][1]) ELSE None]
           ELSE IF XGBOOST_IMPORTED /\ model # None
             THEN IF r.predict = None THEN [raised |-> TRUE, exc |-> "predict"]
                  ELSE LET preds == r.predict[1]
                       IN  [raised           |-> FALSE,
                            prediction_label |-> Some(PyStr(preds)),
                            model_score      |-> Some(preds)]
           ELSE [raised |-> FALSE, prediction_label |-> None, model_score |-> None]

\* mutant: an exception of the prediction is not caught
ClassifyUncaught ==
  /\ pc = "classify"
  /\ \E r \in ModelRuns(MODEL, MODEL_TYPE) :
       LET p == Predict(payload.answers, MODEL, MODEL_TYPE, r)
       IN  /\ run' = r
           /\ prediction_label' = IF p.raised THEN None ELSE p.prediction_label
           /\ model_score' = IF p.raised THEN None ELSE p.model_score
           /\ pc' = IF p.raised THEN "failed" ELSE "score"
           /\ response' = IF p.raised THEN [status_code |-> 500, detail |-> p.exc]
                                      ELSE response
  /\ UNCHANGED << files, environ, MODEL, MODEL_TYPE, results, payload, total_score,
                  per_q, reply, roadmap, posted >>

\* lines 96-119: the prediction; any exception leaves both values None
Classify ==
  /\ pc = "classify"
  /\ \E r \in ModelRuns(MODEL, MODEL_TYPE) :
       LET p == Predict(payload.answers, MODEL, MODEL_TYPE, r)
       IN  /\ run' = r
           /\ prediction_label' = IF p.raised THEN None ELSE p.prediction_label
           /\ model_score' = IF p.raised THEN None ELSE p.model_score
  /\ pc' = "score"
  /\ UNCHANGED << files, environ, MODEL, MODEL_TYPE, results, payload, total_score,
                  per_q, reply, roadmap, posted, response >>

\* mutant: an IndexError of the scorer is caught and the handler carries on
ScoreCaught ==
  /\ pc = "score"
  /\ LET s == fallback_score_from_answers(payload.answers)
     IN  /\ total_score' = IF s.raised THEN 0 ELSE s.total
         /\ per_q' = IF s.raised THEN << >> ELSE s.per_q
  /\ pc' = "roadmap"
  /\ UNCHANGED << files, environ, MODEL, MODEL_TYPE, results, payload, run,
                  prediction_label, model_score, reply, roadmap, posted, response >>

\* line 121: the fallback score; an IndexError is not caught
Score ==
  /\ pc = "score"
  /\ LET s == fallback_score_from_answers(payload.answers)
     IN  IF s.raised
           THEN /\ response' = [status_code |-> 500, detail |-> s.exc]
                /\ pc' = "failed"
                /\ UNCHANGED << total_score, per_q >>
           ELSE /\ total_score' = s.total
                /\ per_q' = s.per_q
                /\ pc' = "roadmap"
                /\ response' = response
  /\ UNCHANGED << files, environ, MODEL, MODEL_TYPE, results, payload, run,
                  prediction_label, model_score, reply, roadmap, posted >>

\* mutant: a failed call of the service is not caught
RoadmapUncaught ==
  /\ pc = "roadmap"
  /\ \E rep \in ServiceReplies :
       LET g == generate_roadmap_with_gemini(payload.gemini_key, CURRENT_USER.name,
                                             total_score, per_q, prediction_label,
                                             environ, rep)
           uncaught == g.posted # << >> /\ rep.kind # "response"
       IN  /\ roadmap' = IF uncaught THEN roadmap ELSE g.roadmap
           /\ posted' = posted \o g.posted
           /\ reply' = IF g.posted = << >> THEN NO_REPLY ELSE rep
           /\ pc' = IF uncaught THEN "failed" ELSE "persist"
           /\ response' = IF uncaught THEN [status_code |-> 500, detail |-> rep.kind]
                                      ELSE response
  /\ UNCHANGED << files, environ, MODEL, MODEL_TYPE, results, payload, run,
                  prediction_label, model_score, total_score, per_q >>

\* line 122: the roadmap, with the service answering rep if it is called
Roadmap ==
  /\ pc = "roadmap"
  /\ \E rep \in ServiceReplies :
       LET g == generate_roadmap_with_gemini(payload.gemini_key, CURRENT_USER.name,
                                             total_score, per_q, prediction_label,
                                             environ, rep)
       IN  /\ roadmap' = g.roadmap
           /\ posted' = posted \o g.posted
           /\ reply' = IF g.posted = << >> THEN NO_REPLY ELSE rep
  /\ pc' = "persist"
  /\ UNCHANGED << files, environ, MODEL, MODEL_TYPE, results, payload, run,
                  prediction_label, model_score, total_score, per_q, response >>

\* mutant: the index of the lowest score
correct_indices_min ==
  [i \in 1..Len(QUESTIONS) |->
     PyListIndex(QUESTIONS[i].scores,
                 -PyMax([k \in 1..Len(QUESTIONS[i].scores) |-> -QUESTIONS[i].scores[k]]))]

\* line 126
correct_indices ==
  [i \in 1..Len(QUESTIONS) |-> PyListIndex(QUESTIONS[i].scores, PyMax(QUESTIONS[i].scores))]

\* lines 127-138
per_question_feedback(answers) ==
  [i \in 1..Len(QUESTIONS) |->
     LET q      == QUESTIONS[i]
         chosen == answers[i]
     IN  [question         |-> q.question,
          chosen_index     |-> chosen,
          chosen_text      |-> PyIndex(q.options, chosen),
          is_correct       |-> (chosen = correct_indices[i]),
          correct_index    |-> correct_indices[i],
          correct_text     |-> PyIndex(q.options, correct_indices[i]),
          score_for_choice |-> PyIndex(q.scores, chosen)]]

\* lines 128-137: answers[i], q["options"][chosen] or q["scores"][chosen]
\* raises IndexError
FeedbackRaises(answers) ==
  \E i \in 1..Len(QUESTIONS) :
    \/ i > Len(answers)
    \/ ~PyIndexOk(QUESTIONS[i].options, answers[i])
    \/ ~PyIndexOk(QUESTIONS[i].scores, answers[i])

\* lines 123-144: store the Result, build the feedback, return; the row is
\* committed (line 124) before the feedback is built
PersistAndRespond ==
  /\ pc = "persist"
  /\ LET res == [id         |-> Len(results) + 1,
                 user_id    |-> CURRENT_USER.id,
                 features   |-> payload.answers,
                 score      |-> total_score,
                 prediction |-> prediction_label,
                 roadmap    |-> roadmap]
     IN  /\ results' = Append(results, res)
         /\ IF FeedbackRaises(payload.answers)
              THEN /\ response' = [status_code |-> 500, detail |-> "IndexError"]
                   /\ pc' = "failed"
              ELSE /\ response' = [status_code  |-> 200,
                                   result_id    |-> res.id,
                                   total_score  |-> total_score,
                                   roadmap      |-> roadmap,
                                   per_question |-> per_question_feedback(payload.answers)]
                   /\ pc' = "done"
  /\ UNCHANGED << files, environ, MODEL, MODEL_TYPE, payload, run, prediction_label,
                  model_score, total_score, per_q, reply, roadmap, posted >>

Next ==
  \/ Receive
  \/ Validate
  \/ Classify
  \/ Score
  \/ Roadmap
  \/ PersistAndRespond

Spec == Init /\ [][Next]_vars

TypeOK ==
  /\ pc \in { "idle", "validate", "classify", "score", "roadmap", "persist", "done", "failed" }
  /\ response.status_code \in { 0, 200, 400, 500 }

(***************************************************************************)
(* Properties                                                              *)
(***************************************************************************)
Answers == payload.answers

Scored == pc \in { "roadmap", "persist", "done" }

Generated == pc \in { "persist", "done" }

\* every answer is an index into its question's options
InRange(a) ==
  \A i \in 1..Min(Len(a), Len(QUESTIONS)) :
    0 <= a[i] /\ a[i] < Len(QUESTIONS[i].options)

ValidVector(a) == Len(a) = Len(QUESTIONS) /\ InRange(a)

RECURSIVE RubricSum(_, _)
\* scores[1][a[1]] + ... + scores[i][a[i]] of the rubric, for a valid vector
RubricSum(a, i) ==
  IF i = 0 THEN 0 ELSE RubricSum(a, i - 1) + QUESTIONS[i].scores[a[i] + 1]

\* C1: for every valid answer vector the fallback scorer's total is the sum
\* of the rubric's points of the selected options, with one record per
\* question, in order, holding the question's text, the selected option's
\* text and its points; the all-zero vector scores 32 and the all-best 150.
C1_TotalIsRubricSum ==
  (Scored /\ ValidVector(Answers)) =>
    /\ total_score = RubricSum(Answers, Len(QUESTIONS))
    /\ Len(per_q) = Len(QUESTIONS)
    /\ \A i \in 1..Len(QUESTIONS) :
         per_q[i] = [question |-> QUESTIONS[i].question,
                     selected |-> QUESTIONS[i].options[Answers[i] + 1],
                     score    |-> QUESTIONS[i].scores[Answers[i] + 1]]
    /\ (Answers = ZEROS => total_score = 32)
    /\ (Answers = BEST => total_score = 150)

C1_Witness == pc = "roadmap" /\ Answers = BEST /\ total_score = 150

\* C2: a submission fails only for an invalid answer vector; with a valid
\* one, whatever the classifier and the generation service do, the handler
\* can always take its next step and ends with a response holding the total
\* score, feedback for every question and a roadmap.
C2_OnlyInvalidInputAborts ==
  /\ pc = "failed" => ~ValidVector(Answers)
  /\ (ValidVector(Answers) /\ pc \notin { "idle", "done" }) => ENABLED Next
  /\ pc = "done" =>
       /\ response.status_code = 200
       /\ response.total_score = total_score
       /\ DOMAIN response.per_question = 1..Len(QUESTIONS)
       /\ response.roadmap = roadmap
       /\ roadmap # NO_ROADMAP

C2_Witness ==
  /\ pc = "done"
  /\ ValidVector(Answers)
  /\ MODEL # None
  /\ run.predict = None
  /\ reply.kind = "Timeout"
  /\ response.status_code = 200

\* C3: the scorer raises IndexOutOfRange iff some answer lies outside
\* [0, number of options): a vector of the right length with such an answer
\* is never scored, and a vector in range is never rejected for an index.
C3_OutOfRangeIffRejected ==
  /\ (Scored /\ Len(Answers) = Len(QUESTIONS)) => InRange(Answers)
  /\ (pc = "failed" /\ response.status_code = 500) => ~InRange(Answers)

\* C4: a submission is rejected for its length iff the answer vector's
\* length differs from the question bank's: such a vector is rejected before
\* anything is scored (nothing is truncated or padded), a vector of the
\* right length never gets the length error, and the feature encoder raises
\* exactly on the same vectors.
C4_LengthMismatchIffRejected ==
  /\ (Len(Answers) # Len(QUESTIONS) /\ pc \notin { "idle", "validate" }) =>
       /\ pc = "failed"
       /\ response.status_code = 400
       /\ per_q = << >>
       /\ total_score = 0
  /\ (Len(Answers) = Len(QUESTIONS) /\ pc # "idle") => response.status_code # 400
  /\ pc # "idle" =>
       (features_from_answers(Answers).raised <=> Len(Answers) # Len(QUESTIONS))

C4_Witness ==
  /\ pc = "failed"
  /\ Len(Answers) = Len(QUESTIONS) - 1
  /\ response.status_code = 400

\* C5: the classification never fails the submission and never changes the
\* fallback score: an absent or corrupted artifact leaves no model, without
\* a model or when predict raises the prediction is None, a failed
\* submission failed in the length check or in the scorer, and the score and
\* the per-question records are those of the answers alone.
C5_ClassifierNeverAborts ==
  /\ files[DEFAULT_MODEL_PATH] \in { "absent", "corrupt" } =>
       (MODEL = None /\ MODEL_TYPE = None)
  /\ (pc \in { "score", "roadmap", "persist", "done" } /\ (MODEL = None \/ run.predict = None)) =>
       prediction_label = None
  /\ pc = "failed" =>
       \/ response.status_code = 400 /\ Len(Answers) # Len(QUESTIONS)
       \/ response.status_code = 500 /\ response.detail = "IndexError"
  /\ Scored =>
       LET alone == fallback_score_from_answers(Answers)
       IN  total_score = alone.total /\ per_q = alone.per_q

C5_Witness ==
  /\ pc = "done"
  /\ MODEL_TYPE = Some("sklearn")
  /\ run.predict = None
  /\ prediction_label = None
  /\ Answers = BEST
  /\ response.total_score = 150

\* neither the request nor the environment holds a non-empty key
NoCredential ==
  /\ payload.gemini_key \in { None, Some(<< >>) }
  /\ environ["GEMINI_API_KEY"] \in { None, Some(<< >>) }

\* C6: without a credential the roadmap is the static heuristic plan, with
\* 6 weeks and 2 resources, whatever the score, the records and the
\* prediction are, and nothing is posted to the service.
C6_NoCredentialStaticPlan ==
  (Generated /\ NoCredential) =>
    /\ roadmap = HEURISTIC_PLAN
    /\ Len(roadmap.weeks) = 6
    /\ Len(roadmap.resources) = 2
    /\ posted = << >>
    /\ reply = NO_REPLY

C6_Witness ==
  /\ pc = "done"
  /\ payload.gemini_key = Some(<< >>)
  /\ environ["GEMINI_API_KEY"] = None
  /\ prediction_label # None
  /\ total_score # 32
  /\ response.roadmap = HEURISTIC_PLAN

\* the call failed: no response, or a response whose status is not 2xx
ServiceFailed ==
  \/ reply.kind \in { "ConnectionError", "Timeout" }
  \/ reply.kind = "response" /\ ~(200 <= reply.status_code /\ reply.status_code < 300)

\* the roadmap is only the summary of a failed call
FailureRoadmap ==
  /\ DOMAIN roadmap = { "summary" }
  /\ Len(roadmap.summary) >= 2
  /\ roadmap.summary[1] = "Gemini call failed: "
  /\ roadmap.summary[Len(roadmap.summary)] = ". Returning heuristic roadmap."

\* C7: with a credential, after a connection error, a timeout or a non-2xx
\* status the roadmap is only a summary naming the failure, without weeks
\* and resources, and is not the static heuristic plan.
C7_FailureGivesSummaryOnly ==
  (Generated /\ ServiceFailed) => (FailureRoadmap /\ roadmap # HEURISTIC_PLAN)

\* the text the generator parses: output_text, else result, else the body
TextualOutput(fields) ==
  IF "output_text" \in DOMAIN fields /\ fields["output_text"] # << >>
    THEN fields["output_text"]
  ELSE IF "result" \in DOMAIN fields /\ fields["result"] # << >>
    THEN fields["result"]
  ELSE json_dumps(fields)

C9_ExactlyOneCall == Generated => Len(posted) = 1

\* C9: an invocation with a credential posts exactly one request, whatever
\* the service answers, and one without a credential posts none; nothing is
\* posted outside the generator and a request is never posted twice.
C9_OneCallIffCredential ==
  /\ Generated => Len(posted) = (IF NoCredential THEN 0 ELSE 1)
  /\ ~Generated => posted = << >>

C9_Witness ==
  /\ pc = "done"
  /\ reply.kind = "Timeout"
  /\ Len(posted) = 1
  /\ posted[1].authorization = << "env-key" >>

\* C10: the reported correct index of a question is the first index holding
\* the maximum of its scores, the same in every response, and a choice is
\* marked correct iff its index equals it.
C10_CorrectIndexFirstArgmax ==
  pc = "done" =>
    \A i \in 1..Len(QUESTIONS) :
      LET f  == response.per_question[i]
          sc == QUESTIONS[i].scores
          c  == f.correct_index + 1
      IN  /\ c \in 1..Len(sc)
          /\ \A j \in 1..Len(sc) : sc[j] <= sc[c]
          /\ \A j \in 1..(c - 1) : sc[j] < sc[c]
          /\ f.correct_index = BEST[i]
          /\ f.correct_text = QUESTIONS[i].options[c]
          /\ f.chosen_index = Answers[i]
          /\ f.is_correct <=> (f.chosen_index = f.correct_index)

C10_Witness ==
  /\ pc = "done"
  /\ Answers = BEST
  /\ \A i \in 1..Len(QUESTIONS) : response.per_question[i].is_correct

\* C11: a submission rejected for its length or for an out-of-range index
\* leaves the results table as it was and posts nothing to the generation
\* service; a request is posted and a roadmap exists only after the length
\* check and the scoring succeeded; a row is stored only after the roadmap
\* was generated, and only by a submission that returns its response.
C11_RejectedLeavesNoTrace ==
  /\ pc = "failed" =>
       /\ response.status_code \in { 400, 500 }
       /\ results = PRIOR_RESULTS
       /\ posted = << >>
       /\ roadmap = NO_ROADMAP
  /\ (posted # << >> \/ roadmap # NO_ROADMAP) =>
       /\ Generated
       /\ Len(Answers) = Len(QUESTIONS)
       /\ Len(per_q) = Len(QUESTIONS)
  /\ pc # "done" => results = PRIOR_RESULTS
  /\ pc = "done" =>
       /\ Len(results) = Len(PRIOR_RESULTS) + 1
       /\ SubSeq(results, 1, Len(PRIOR_RESULTS)) = PRIOR_RESULTS
       /\ results[Len(results)].features = Answers
       /\ results[Len(results)].roadmap = roadmap
       /\ roadmap # NO_ROADMAP
       /\ response.status_code = 200
       /\ response.result_id = results[Len(results)].id

C11_Witness ==
  /\ pc = "failed"
  /\ response.status_code = 500
  /\ Len(Answers) = Len(QUESTIONS)
  /\ payload.gemini_key = Some(<< "user-key" >>)
  /\ results = PRIOR_RESULTS
  /\ posted = << >>

=============================================================================
